---- MODULE Spec2Model ----
(***************************************************************************)
(* Model of the per-subscription event-delivery Trigger of                 *)
(* internal/trigger/trigger/trigger.go: the intake queue (eventCh), the    *)
(* filter workers (runEventProcess), the send queue (sendCh), the send     *)
(* workers with their retry loop (runEventSend / retrySendEvent), the idle *)
(* watcher (runSleepWatch) and the lifecycle operations Start, Stop and    *)
(* GetState.  Every goroutine is a process with a program counter; every   *)
(* channel operation, offset-manager call, sink call and sleep is a step.  *)
(*                                                                         *)
(* The callers: EventArrived may be called at any time, before Start and   *)
(* after Stop included, by overlapping calls; Start and Stop calls do not  *)
(* overlap one another; Start is called on a Trigger none of whose         *)
(* goroutines is running.                                                  *)
(* Whether NewCeClient accepts the target is fixed when the Trigger is     *)
(* made.  A panic ends the process: no step follows it.                    *)
(***************************************************************************)
EXTENDS Integers, Sequences, FiniteSets, TLC

(* ---------------- bounds of the model ---------------- *)

\* number of distinct event records the producers hand to EventArrived
NumEvents == 2
\* config.BufferSize: capacity of eventCh and of sendCh
BufferSize == 1
\* config.FilterProcessSize: filter workers spawned by one Start
FilterProcessSize == 2
\* config.SendProcessSize: send workers spawned by one Start
SendProcessSize == 2
\* config.MaxRetryTimes
MaxRetryTimes == 2
\* calls of Start() the model follows
MaxStarts == 2
\* calls of Stop() the model follows
MaxStops == 2
\* last instant of the model's clock
MaxTime == 2

(* ---------------- program constants ---------------- *)

\* Trigger.SleepDuration (30 * time.Second), in clock units of the model
SleepDuration == 1

TriggerCreated == "created"
TriggerRunning == "running"
TriggerSleep   == "sleep"
TriggerStopped == "stopped"

\* the zero time.Time a new Trigger has in lastActive: time.Now().Sub of it is
\* longer than any SleepDuration
ZeroTime == 0 - (SleepDuration + 1)

Events  == 1..NumEvents
\* a worker is named by its index in the spawning loop of Start
FilterWorkers == 1..FilterProcessSize
SendWorkers   == 1..SendProcessSize
NoEvent == 0

\* filter.FilterEvent results
PassFilter == "pass"
FailFilter == "fail"
\* classification of the sink's answer by ce.IsACK
ACK  == "ack"
NACK == "nack"

VARIABLES
    state,        \* t.state
    stateMutex,   \* t.stateMutex: TRUE while the watcher holds the write lock
    lastActive,   \* t.lastActive
    now,          \* time.Now()
    stop,         \* t.stop is set (FALSE: nil)
    ctxDone,      \* the context t.stop cancels is cancelled
    startCalls,   \* calls of Start so far
    startPc,      \* position of the Start call
    targetValid,  \* primitive.NewCeClient accepts t.Target
    eventCh,      \* buffered channel t.eventCh
    sendCh,       \* buffered channel t.sendCh
    eventChClosed,
    sendChClosed,
    apc,          \* apc[e]: position of the EventArrived call for event e
    fpc, fev,     \* filter worker: position and the event it holds
    spc, sev,     \* send worker: position and the event it holds
    retryTimes,   \* retryTimes[w]: local of retrySendEvent (0 outside the call)
    err,          \* err[w]: result of retrySendEvent ("nil" outside the call)
    wpc,          \* position of the idle watcher
    stopPc,       \* position of the Stop call
    stopCalls,    \* calls of Stop so far
    stopReturns,  \* calls of Stop that returned
    panicked,     \* a goroutine panicked: the process is gone
    received,     \* offsetManager: received[e] = EventReceive calls for e
    commits,      \* offsetManager: commits[e] = EventCommit calls for e
    paths,        \* paths[e]: the code paths that committed e
    filterRes,    \* filterRes[e]: result of filter.FilterEvent for e ("none" before)
    attempts,     \* attempts[e]: ceClient.Send calls for e
    acks,         \* acks[e]: acknowledged Send calls for e
    pauses        \* pauses[e]: time.Sleep(RetryPeriod) calls while sending e

chans   == <<eventCh, sendCh, eventChClosed, sendChClosed>>
life    == <<state, stateMutex, lastActive, stop, ctxDone, startCalls, startPc,
             targetValid>>
fvars   == <<fpc, fev>>
svars   == <<spc, sev, retryTimes, err>>
stops   == <<stopPc, stopCalls, stopReturns>>
offsets == <<received, commits, paths>>
sinkLog == <<attempts, acks, pauses>>
vars == <<chans, life, now, apc, fvars, svars, wpc, stops, panicked, offsets,
          filterRes, sinkLog>>

(* ---------------- the collaborators ---------------- *)

\* offset.SubscriptionOffset.EventReceive
EventReceive(rcv, e) == [rcv EXCEPT ![e] = @ + 1]

\* offset.SubscriptionOffset.EventCommit
EventCommit(cms, e) == [cms EXCEPT ![e] = @ + 1]

\* ce.IsACK
IsACK(r) == r = ACK

\* NewTrigger
Init ==
    /\ state = TriggerCreated
    /\ stateMutex = FALSE
    /\ lastActive = ZeroTime
    /\ now = 0
    /\ stop = FALSE
    /\ ctxDone = FALSE
    /\ startCalls = 0
    /\ startPc = "idle"
    /\ targetValid \in BOOLEAN
    /\ eventCh = <<>>
    /\ sendCh = <<>>
    /\ eventChClosed = FALSE
    /\ sendChClosed = FALSE
    /\ apc = [e \in Events |-> "idle"]
    /\ fpc = [w \in FilterWorkers |-> "none"]
    /\ fev = [w \in FilterWorkers |-> NoEvent]
    /\ spc = [w \in SendWorkers |-> "none"]
    /\ sev = [w \in SendWorkers |-> NoEvent]
    /\ retryTimes = [w \in SendWorkers |-> 0]
    /\ err = [w \in SendWorkers |-> "nil"]
    /\ wpc = "none"
    /\ stopPc = "idle"
    /\ stopCalls = 0
    /\ stopReturns = 0
    /\ panicked = FALSE
    /\ received = [e \in Events |-> 0]
    /\ commits = [e \in Events |-> 0]
    /\ paths = [e \in Events |-> {}]
    /\ filterRes = [e \in Events |-> "none"]
    /\ attempts = [e \in Events |-> 0]
    /\ acks = [e \in Events |-> 0]
    /\ pauses = [e \in Events |-> 0]

\* a panic in any goroutine ends the process
Panic ==
    /\ panicked' = TRUE
    /\ UNCHANGED <<chans, life, now, apc, fvars, svars, wpc, stops, offsets,
                   filterRes, sinkLog>>

(* ---------------- EventArrived ---------------- *)

\* a producer calls EventArrived(ctx, e) and reaches the select; the calls may
\* overlap, and the records are numbered in the order the calls are made
ArrivedCall(e) ==
    /\ ~panicked
    /\ apc[e] = "idle"
    /\ \A d \in Events : d < e => apc[d] # "idle"
    /\ apc' = [apc EXCEPT ![e] = "select"]
    /\ UNCHANGED <<chans, life, now, fvars, svars, wpc, stops, panicked, offsets,
                   filterRes, sinkLog>>

\* case t.eventCh <- event (a send on a closed channel panics)
ArrivedEnqueue(e) ==
    /\ ~panicked
    /\ apc[e] = "select"
    /\ IF eventChClosed
         THEN Panic
         ELSE /\ Len(eventCh) < BufferSize
              /\ eventCh' = Append(eventCh, e)
              /\ apc' = [apc EXCEPT ![e] = "enqueued"]
              /\ UNCHANGED <<sendCh, eventChClosed, sendChClosed, life, now, fvars,
                             svars, wpc, stops, panicked, offsets, filterRes, sinkLog>>

\* a call that counts the arrival as activity of the trigger
ArrivedReceiveRefreshes(e) ==
    /\ ~panicked
    /\ apc[e] = "enqueued"
    /\ received' = EventReceive(received, e)
    /\ apc' = [apc EXCEPT ![e] = "ok"]
    /\ lastActive' = now
    /\ UNCHANGED <<chans, state, stateMutex, stop, ctxDone, startCalls, startPc,
                   targetValid, now, fvars, svars, wpc, stops, panicked, commits,
                   paths, filterRes, sinkLog>>

\* t.offsetManager.EventReceive(event.OffsetInfo); return nil
ArrivedReceive(e) ==
    /\ ~panicked
    /\ apc[e] = "enqueued"
    /\ received' = EventReceive(received, e)
    /\ apc' = [apc EXCEPT ![e] = "ok"]
    /\ UNCHANGED <<chans, life, now, fvars, svars, wpc, stops, panicked, commits,
                   paths, filterRes, sinkLog>>

\* a cancelled call that registers the receive all the same
ArrivedCancelRegisters(e) ==
    /\ ~panicked
    /\ apc[e] = "select"
    /\ received' = EventReceive(received, e)
    /\ apc' = [apc EXCEPT ![e] = "cancelled"]
    /\ UNCHANGED <<chans, life, now, fvars, svars, wpc, stops, panicked, commits,
                   paths, filterRes, sinkLog>>

\* case <-ctx.Done(): return ctx.Err()  (the caller's context is cancelled)
ArrivedCancel(e) ==
    /\ ~panicked
    /\ apc[e] = "select"
    /\ apc' = [apc EXCEPT ![e] = "cancelled"]
    /\ UNCHANGED <<chans, life, now, fvars, svars, wpc, stops, panicked, offsets,
                   filterRes, sinkLog>>

(* ---------------- runEventProcess (filter worker) ---------------- *)

\* case <-ctx.Done(): return
FilterCtxDone(w) ==
    /\ ~panicked
    /\ fpc[w] = "select"
    /\ ctxDone
    /\ fpc' = [fpc EXCEPT ![w] = "exited"]
    /\ UNCHANGED <<chans, life, now, apc, fev, svars, wpc, stops, panicked, offsets,
                   filterRes, sinkLog>>

\* a receive that reads the head of the queue and leaves it there
FilterRecvPeek(w) ==
    /\ ~panicked
    /\ fpc[w] = "select"
    /\ Len(eventCh) > 0
    /\ fev' = [fev EXCEPT ![w] = Head(eventCh)]
    /\ fpc' = [fpc EXCEPT ![w] = "filter"]
    /\ UNCHANGED <<chans, life, now, apc, svars, wpc, stops, panicked, offsets,
                   filterRes, sinkLog>>

\* case event, ok := <-t.eventCh with ok (a closed channel still yields what it buffers)
FilterRecv(w) ==
    /\ ~panicked
    /\ fpc[w] = "select"
    /\ Len(eventCh) > 0
    /\ fev' = [fev EXCEPT ![w] = Head(eventCh)]
    /\ eventCh' = Tail(eventCh)
    /\ fpc' = [fpc EXCEPT ![w] = "filter"]
    /\ UNCHANGED <<sendCh, eventChClosed, sendChClosed, life, now, apc, svars, wpc,
                   stops, panicked, offsets, filterRes, sinkLog>>

\* case event, ok := <-t.eventCh with !ok: return
FilterRecvClosed(w) ==
    /\ ~panicked
    /\ fpc[w] = "select"
    /\ eventChClosed
    /\ Len(eventCh) = 0
    /\ fpc' = [fpc EXCEPT ![w] = "exited"]
    /\ UNCHANGED <<chans, life, now, apc, fev, svars, wpc, stops, panicked, offsets,
                   filterRes, sinkLog>>

\* a filter-reject branch that commits and, the continue missing, goes on to forward
FilterRejectNoContinue(w) ==
    /\ commits' = EventCommit(commits, fev[w])
    /\ paths' = [paths EXCEPT ![fev[w]] = @ \cup {"filter"}]
    /\ fpc' = [fpc EXCEPT ![w] = "forward"]
    /\ UNCHANGED fev

\* the filter-reject branch: EventCommit and continue
FilterReject(w) ==
    /\ commits' = EventCommit(commits, fev[w])
    /\ paths' = [paths EXCEPT ![fev[w]] = @ \cup {"filter"}]
    /\ fev' = [fev EXCEPT ![w] = NoEvent]
    /\ fpc' = [fpc EXCEPT ![w] = "select"]

\* the pass branch: go on to t.sendCh <- event
FilterPass(w) ==
    /\ fpc' = [fpc EXCEPT ![w] = "forward"]
    /\ UNCHANGED <<fev, commits, paths>>

\* the test with its sense inverted
RejectsInverted(res) == res # FailFilter

\* res == filter.FailFilter
Rejects(res) == res = FailFilter

\* res := filter.FilterEvent(t.filter, *event.Event) and the branch on it
FilterEval(w) ==
    /\ ~panicked
    /\ fpc[w] = "filter"
    /\ \E res \in {PassFilter, FailFilter} :
         /\ filterRes' = [filterRes EXCEPT ![fev[w]] = res]
         /\ IF Rejects(res) THEN FilterReject(w) ELSE FilterPass(w)
    /\ UNCHANGED <<chans, life, now, apc, svars, wpc, stops, panicked, received,
                   sinkLog>>

\* a forward that does not wait for room in sendCh
FilterForwardNoWait(w) ==
    /\ ~panicked
    /\ fpc[w] = "forward"
    /\ IF sendChClosed
         THEN Panic
         ELSE /\ sendCh' = Append(sendCh, fev[w])
              /\ fev' = [fev EXCEPT ![w] = NoEvent]
              /\ fpc' = [fpc EXCEPT ![w] = "select"]
              /\ UNCHANGED <<eventCh, eventChClosed, sendChClosed, life, now, apc,
                             svars, wpc, stops, panicked, offsets, filterRes, sinkLog>>

\* t.sendCh <- event: blocks while sendCh is full, panics when sendCh is closed
FilterForward(w) ==
    /\ ~panicked
    /\ fpc[w] = "forward"
    /\ IF sendChClosed
         THEN Panic
         ELSE /\ Len(sendCh) < BufferSize
              /\ sendCh' = Append(sendCh, fev[w])
              /\ fev' = [fev EXCEPT ![w] = NoEvent]
              /\ fpc' = [fpc EXCEPT ![w] = "select"]
              /\ UNCHANGED <<eventCh, eventChClosed, sendChClosed, life, now, apc,
                             svars, wpc, stops, panicked, offsets, filterRes, sinkLog>>

(* ---------------- runEventSend / retrySendEvent (send worker) ---------------- *)

\* case <-ctx.Done(): return
SendCtxDone(w) ==
    /\ ~panicked
    /\ spc[w] = "select"
    /\ ctxDone
    /\ spc' = [spc EXCEPT ![w] = "exited"]
    /\ UNCHANGED <<chans, life, now, apc, fvars, sev, retryTimes, err, wpc, stops,
                   panicked, offsets, filterRes, sinkLog>>

\* a loop condition that is off by one
RetryAgainOffByOne(n) == n <= MaxRetryTimes

\* the loop condition of retrySendEvent
RetryAgain(n) == n < MaxRetryTimes

\* case event, ok := <-t.sendCh with ok; retrySendEvent starts with retryTimes := 0
SendRecv(w) ==
    /\ ~panicked
    /\ spc[w] = "select"
    /\ Len(sendCh) > 0
    /\ sev' = [sev EXCEPT ![w] = Head(sendCh)]
    /\ sendCh' = Tail(sendCh)
    /\ retryTimes' = [retryTimes EXCEPT ![w] = 0]
    /\ err' = [err EXCEPT ![w] = "nil"]
    /\ spc' = [spc EXCEPT ![w] = IF RetryAgain(0) THEN "attempt" ELSE "commit"]
    /\ UNCHANGED <<eventCh, eventChClosed, sendChClosed, life, now, apc, fvars, wpc,
                   stops, panicked, offsets, filterRes, sinkLog>>

\* case event, ok := <-t.sendCh with !ok: return
SendRecvClosed(w) ==
    /\ ~panicked
    /\ spc[w] = "select"
    /\ sendChClosed
    /\ Len(sendCh) = 0
    /\ spc' = [spc EXCEPT ![w] = "exited"]
    /\ UNCHANGED <<chans, life, now, apc, fvars, sev, retryTimes, err, wpc, stops,
                   panicked, offsets, filterRes, sinkLog>>

\* a loop that gives up after the first attempt, whatever its answer
AfterAttemptGivesUp(r) == "commit"

\* where the loop goes after an attempt answered r
AfterAttempt(r) == IF IsACK(r) THEN "commit" ELSE "pause"

\* retryTimes++; err = doFunc(): one ceClient.Send, answered by the sink (the
\* sink is free to acknowledge or not, whatever the state of the context)
SendAttempt(w) ==
    /\ ~panicked
    /\ spc[w] = "attempt"
    /\ \E r \in {ACK, NACK} :
         /\ retryTimes' = [retryTimes EXCEPT ![w] = @ + 1]
         /\ attempts' = [attempts EXCEPT ![sev[w]] = @ + 1]
         /\ acks' = [acks EXCEPT ![sev[w]] = IF IsACK(r) THEN @ + 1 ELSE @]
         /\ err' = [err EXCEPT ![w] = IF IsACK(r) THEN "nil" ELSE "rejected"]
         /\ spc' = [spc EXCEPT ![w] = AfterAttempt(r)]
    /\ UNCHANGED <<chans, life, now, apc, fvars, sev, wpc, stops, panicked, offsets,
                   filterRes, pauses>>

\* time.Sleep(t.config.RetryPeriod), then the loop condition
SendPause(w) ==
    /\ ~panicked
    /\ spc[w] = "pause"
    /\ pauses' = [pauses EXCEPT ![sev[w]] = @ + 1]
    /\ spc' = [spc EXCEPT ![w] = IF RetryAgain(retryTimes[w]) THEN "attempt" ELSE "commit"]
    /\ UNCHANGED <<chans, life, now, apc, fvars, sev, retryTimes, err, wpc, stops,
                   panicked, offsets, filterRes, attempts, acks>>

\* the path a send worker commits on, from what retrySendEvent returned
SendPath(er) == IF er = "nil" THEN "ack" ELSE "exhausted"

\* a send worker that commits only what retrySendEvent delivered
SendCommitOnlyDelivered(w) ==
    /\ ~panicked
    /\ spc[w] = "commit"
    /\ commits' = IF err[w] = "nil" THEN EventCommit(commits, sev[w]) ELSE commits
    /\ paths' = IF err[w] = "nil" THEN [paths EXCEPT ![sev[w]] = @ \cup {"ack"}] ELSE paths
    /\ sev' = [sev EXCEPT ![w] = NoEvent]
    /\ retryTimes' = [retryTimes EXCEPT ![w] = 0]
    /\ err' = [err EXCEPT ![w] = "nil"]
    /\ spc' = [spc EXCEPT ![w] = "select"]
    /\ UNCHANGED <<chans, life, now, apc, fvars, wpc, stops, panicked, received,
                   filterRes, sinkLog>>

\* t.offsetManager.EventCommit(event.OffsetInfo), whatever retrySendEvent returned;
\* the iteration's locals end with it
SendCommit(w) ==
    /\ ~panicked
    /\ spc[w] = "commit"
    /\ commits' = EventCommit(commits, sev[w])
    /\ paths' = [paths EXCEPT ![sev[w]] = @ \cup {SendPath(err[w])}]
    /\ sev' = [sev EXCEPT ![w] = NoEvent]
    /\ retryTimes' = [retryTimes EXCEPT ![w] = 0]
    /\ err' = [err EXCEPT ![w] = "nil"]
    /\ spc' = [spc EXCEPT ![w] = "select"]
    /\ UNCHANGED <<chans, life, now, apc, fvars, wpc, stops, panicked, received,
                   filterRes, sinkLog>>

(* ---------------- runSleepWatch (idle watcher) ---------------- *)

\* case <-ctx.Done(): return
WatchCtxDone ==
    /\ ~panicked
    /\ wpc = "select"
    /\ ctxDone
    /\ wpc' = "exited"
    /\ UNCHANGED <<chans, life, now, apc, fvars, svars, stops, panicked, offsets,
                   filterRes, sinkLog>>

\* case <-tk.C: t.stateMutex.Lock()
WatchLock ==
    /\ ~panicked
    /\ wpc = "select"
    /\ ~stateMutex
    /\ stateMutex' = TRUE
    /\ wpc' = "locked"
    /\ UNCHANGED <<chans, state, lastActive, stop, ctxDone, startCalls, startPc,
                   targetValid, now, apc, fvars, svars, stops, panicked, offsets,
                   filterRes, sinkLog>>

\* a watcher with the two branches of the comparison exchanged
WatchedStateSwapped(st) ==
    IF st = TriggerRunning
      THEN IF now - lastActive > SleepDuration THEN TriggerRunning ELSE TriggerSleep
      ELSE st

\* the state the watcher leaves, from the state it finds
WatchedState(st) ==
    IF st = TriggerRunning
      THEN IF now - lastActive > SleepDuration THEN TriggerSleep ELSE TriggerRunning
      ELSE st

\* The states the locked section can leave.  Start writes t.lastActive without
\* the lock: while that write is pending the watcher's read of the field races
\* with it, and a torn time.Time compares either way.
WatchOutcomes(st) ==
    IF st = TriggerRunning /\ startPc = "stated"
      THEN {TriggerSleep, TriggerRunning}
      ELSE {WatchedState(st)}

\* the locked section of the watcher, then t.stateMutex.Unlock()
WatchUpdate ==
    /\ ~panicked
    /\ wpc = "locked"
    /\ state' \in WatchOutcomes(state)
    /\ stateMutex' = FALSE
    /\ wpc' = "select"
    /\ UNCHANGED <<chans, lastActive, stop, ctxDone, startCalls, startPc, targetValid,
                   now, apc, fvars, svars, stops, panicked, offsets, filterRes,
                   sinkLog>>

\* time passes
Tick ==
    /\ ~panicked
    /\ now < MaxTime
    /\ now' = now + 1
    /\ UNCHANGED <<chans, life, apc, fvars, svars, wpc, stops, panicked, offsets,
                   filterRes, sinkLog>>

(* ---------------- Start, Stop, GetState ---------------- *)

\* what t.wg.Wait() waits for: every goroutine started on the group has returned
\* (the callers call Start on a Trigger none of whose goroutines is running: a new
\* one, or a stopped one)
GroupDone ==
    /\ \A w \in FilterWorkers : fpc[w] \in {"none", "exited"}
    /\ \A w \in SendWorkers : spc[w] \in {"none", "exited"}
    /\ wpc \in {"none", "exited"}

\* primitive.NewCeClient(t.Target) fails: return err
StartFail ==
    /\ ~panicked
    /\ ~targetValid
    /\ startPc = "idle"
    /\ startCalls < MaxStarts
    /\ GroupDone
    /\ stopPc = "idle"
    /\ startCalls' = startCalls + 1
    /\ UNCHANGED <<chans, state, stateMutex, lastActive, stop, ctxDone, startPc,
                   targetValid, now, apc, fvars, svars, wpc, stops, panicked, offsets,
                   filterRes, sinkLog>>

\* the number of goroutines one Start puts on the group, by kind
Spawned(n) == [w \in 1..n |-> "select"]

\* NewCeClient succeeds: a fresh context, its cancel in t.stop, the filter
\* workers, the send workers and the watcher spawned on it
StartSpawn ==
    /\ ~panicked
    /\ targetValid
    /\ startPc = "idle"
    /\ startCalls < MaxStarts
    /\ GroupDone
    /\ stopPc = "idle"
    /\ startCalls' = startCalls + 1
    /\ stop' = TRUE
    /\ ctxDone' = FALSE
    /\ fpc' = Spawned(FilterProcessSize)
    /\ spc' = Spawned(SendProcessSize)
    /\ wpc' = "select"
    /\ startPc' = "spawned"
    /\ UNCHANGED <<chans, state, stateMutex, lastActive, targetValid, now, apc, fev,
                   sev, retryTimes, err, stops, panicked, offsets, filterRes,
                   sinkLog>>

\* t.state = TriggerRunning, written without taking t.stateMutex
StartSetState ==
    /\ ~panicked
    /\ startPc = "spawned"
    /\ state' = TriggerRunning
    /\ startPc' = "stated"
    /\ UNCHANGED <<chans, stateMutex, lastActive, stop, ctxDone, startCalls,
                   targetValid, now, apc, fvars, svars, wpc, stops, panicked, offsets,
                   filterRes, sinkLog>>

\* t.lastActive = time.Now(); return nil
StartReturn ==
    /\ ~panicked
    /\ startPc = "stated"
    /\ lastActive' = now
    /\ startPc' = "idle"
    /\ UNCHANGED <<chans, state, stateMutex, stop, ctxDone, startCalls, targetValid,
                   now, apc, fvars, svars, wpc, stops, panicked, offsets, filterRes,
                   sinkLog>>

\* if t.state == TriggerStopped { return }
StopAlreadyStopped ==
    /\ ~panicked
    /\ startPc = "idle"
    /\ stopPc = "idle"
    /\ stopCalls < MaxStops
    /\ state = TriggerStopped
    /\ stopCalls' = stopCalls + 1
    /\ stopReturns' = stopReturns + 1
    /\ UNCHANGED <<chans, life, now, apc, fvars, svars, wpc, stopPc, panicked,
                   offsets, filterRes, sinkLog>>

\* t.stop(): calling the nil func of a Trigger never started panics
StopCancel ==
    /\ ~panicked
    /\ startPc = "idle"
    /\ stopPc = "idle"
    /\ stopCalls < MaxStops
    /\ state # TriggerStopped
    /\ stopCalls' = stopCalls + 1
    /\ IF ~stop
         THEN /\ panicked' = TRUE
              /\ UNCHANGED <<ctxDone, stopPc>>
         ELSE /\ ctxDone' = TRUE
              /\ stopPc' = "wait"
              /\ UNCHANGED panicked
    /\ UNCHANGED <<chans, state, stateMutex, lastActive, stop, startCalls, startPc,
                   targetValid, now, apc, fvars, svars, wpc, stopReturns, offsets,
                   filterRes, sinkLog>>

\* t.wg.Wait() returns; close(t.eventCh); close(t.sendCh); t.state = TriggerStopped
\* (closing a closed channel panics)
StopFinish ==
    /\ ~panicked
    /\ stopPc = "wait"
    /\ GroupDone
    /\ IF eventChClosed \/ sendChClosed
         THEN Panic
         ELSE /\ eventChClosed' = TRUE
              /\ sendChClosed' = TRUE
              /\ state' = TriggerStopped
              /\ stopPc' = "idle"
              /\ stopReturns' = stopReturns + 1
              /\ UNCHANGED <<eventCh, sendCh, stateMutex, lastActive, stop, ctxDone,
                             startCalls, startPc, targetValid, now, apc, fvars, svars,
                             wpc,
                             stopCalls,
                             panicked, offsets, filterRes, sinkLog>>

\* GetState: the state read under the read lock
GetState == state

(* ---------------- the specifications ---------------- *)

FilterWorker(w) ==
    \/ FilterCtxDone(w)
    \/ FilterRecv(w)
    \/ FilterRecvClosed(w)
    \/ FilterEval(w)
    \/ FilterForward(w)

SendWorker(w) ==
    \/ SendCtxDone(w)
    \/ SendRecv(w)
    \/ SendRecvClosed(w)
    \/ SendAttempt(w)
    \/ SendPause(w)
    \/ SendCommit(w)

Next ==
    \/ \E e \in Events : ArrivedCall(e)
    \/ \E e \in Events : ArrivedEnqueue(e)
    \/ \E e \in Events : ArrivedReceive(e)
    \/ \E e \in Events : ArrivedCancel(e)
    \/ \E w \in FilterWorkers : FilterCtxDone(w)
    \/ \E w \in FilterWorkers : FilterRecv(w)
    \/ \E w \in FilterWorkers : FilterRecvClosed(w)
    \/ \E w \in FilterWorkers : FilterEval(w)
    \/ \E w \in FilterWorkers : FilterForward(w)
    \/ \E w \in SendWorkers : SendCtxDone(w)
    \/ \E w \in SendWorkers : SendRecv(w)
    \/ \E w \in SendWorkers : SendRecvClosed(w)
    \/ \E w \in SendWorkers : SendAttempt(w)
    \/ \E w \in SendWorkers : SendPause(w)
    \/ \E w \in SendWorkers : SendCommit(w)
    \/ WatchCtxDone
    \/ WatchLock
    \/ WatchUpdate
    \/ Tick
    \/ StartFail
    \/ StartSpawn
    \/ StartSetState
    \/ StartReturn
    \/ StopAlreadyStopped
    \/ StopCancel
    \/ StopFinish

Spec == Init /\ [][Next]_vars

\* The Go scheduler runs every runnable goroutine, and a goroutine blocked on a
\* channel is served in FIFO order, so a worker whose step is enabled again and
\* again takes it; the sink call and time.Sleep return.  Nothing obliges the
\* callers of Start, Stop and EventArrived to call.
Fairness ==
    /\ \A w \in FilterWorkers : SF_vars(FilterWorker(w))
    /\ \A w \in SendWorkers : SF_vars(SendWorker(w))
    /\ \A e \in Events : WF_vars(ArrivedReceive(e))

\* The steps that neither move the clock nor read it.  No step of EventArrived,
\* of the filter workers, of the send workers or of Stop reads the clock or the
\* state the watcher's tick writes under it, so what the pipeline does is the
\* same at every instant; the liveness of the pipeline is checked over these
\* steps.
PipelineNext ==
    \/ \E e \in Events : ArrivedCall(e)
    \/ \E e \in Events : ArrivedEnqueue(e)
    \/ \E e \in Events : ArrivedReceive(e)
    \/ \E e \in Events : ArrivedCancel(e)
    \/ \E w \in FilterWorkers : FilterCtxDone(w)
    \/ \E w \in FilterWorkers : FilterRecv(w)
    \/ \E w \in FilterWorkers : FilterRecvClosed(w)
    \/ \E w \in FilterWorkers : FilterEval(w)
    \/ \E w \in FilterWorkers : FilterForward(w)
    \/ \E w \in SendWorkers : SendCtxDone(w)
    \/ \E w \in SendWorkers : SendRecv(w)
    \/ \E w \in SendWorkers : SendRecvClosed(w)
    \/ \E w \in SendWorkers : SendAttempt(w)
    \/ \E w \in SendWorkers : SendPause(w)
    \/ \E w \in SendWorkers : SendCommit(w)
    \/ WatchCtxDone
    \/ StartFail
    \/ StartSpawn
    \/ StartSetState
    \/ StartReturn
    \/ StopAlreadyStopped
    \/ StopCancel
    \/ StopFinish

FairSpec == Init /\ [][PipelineNext]_vars /\ Fairness

\* The steps of a Trigger to which no event is handed: the clock, the watcher,
\* Start and Stop, and the workers' ways out.  The watcher reads the clock,
\* t.state and t.lastActive only, and no step of EventArrived or of the pipeline
\* writes any of them, so the watcher does on a busy Trigger what it does on an
\* idle one; its liveness is checked over these steps.
IdleNext ==
    \/ \E w \in FilterWorkers : FilterCtxDone(w)
    \/ \E w \in FilterWorkers : FilterRecvClosed(w)
    \/ \E w \in SendWorkers : SendCtxDone(w)
    \/ \E w \in SendWorkers : SendRecvClosed(w)
    \/ WatchCtxDone
    \/ WatchLock
    \/ WatchUpdate
    \/ Tick
    \/ StartFail
    \/ StartSpawn
    \/ StartSetState
    \/ StartReturn
    \/ StopAlreadyStopped
    \/ StopCancel
    \/ StopFinish

\* the ticker of runSleepWatch fires every 10 ms and the goroutine is scheduled:
\* a tick that can take the lock takes it, and the locked section ends
WatchFairness ==
    /\ WF_vars(WatchLock)
    /\ WF_vars(WatchUpdate)

IdleSpec == Init /\ [][IdleNext]_vars /\ WatchFairness

(* ---------------- the properties ---------------- *)

\* the elements of a channel's buffer
Buffered(ch) == {ch[i] : i \in 1..Len(ch)}

\* the events a filter worker / a send worker holds
HeldByFilter == {fev[w] : w \in FilterWorkers} \ {NoEvent}
HeldBySend == {sev[w] : w \in SendWorkers} \ {NoEvent}

\* C1: an event is never committed before its receive is registered: no state
\* has EventCommit called for an event and EventReceive not yet called for it.
C1_ReceiveBeforeCommit ==
    \A e \in Events : commits[e] > 0 => received[e] > 0

\* C2: EventCommit is called at most once per event, on exactly one of the three
\* paths, and the path agrees with what happened to the event: the filter path
\* for a rejected event, the ack path after an acknowledgment, the exhausted
\* path after MaxRetryTimes rejected attempts.
C2_CommitAtMostOnce ==
    \A e \in Events :
        /\ commits[e] <= 1
        /\ Cardinality(paths[e]) = commits[e]
        /\ "filter" \in paths[e] => filterRes[e] = FailFilter
        /\ "ack" \in paths[e] => filterRes[e] = PassFilter /\ acks[e] = 1
        /\ "exhausted" \in paths[e] => filterRes[e] = PassFilter /\ acks[e] = 0

\* two send workers at work in parallel, one event already committed on the
\* exhausted path while the other, acknowledged, is about to be committed
C2_Witness ==
    /\ paths[1] = {"exhausted"}
    /\ commits[1] = 1
    /\ \E w \in SendWorkers : sev[w] = 2 /\ spc[w] = "commit" /\ acks[2] = 1

\* C4: an event the filter rejected is never on the send queue, never held by a
\* send worker, gets no send attempt, and has exactly one commit, the filter
\* worker's.
C4_FilteredNeverSent ==
    \A e \in Events :
        filterRes[e] = FailFilter =>
            /\ e \notin Buffered(sendCh)
            /\ e \notin HeldBySend
            /\ \A w \in FilterWorkers : ~(fpc[w] = "forward" /\ fev[w] = e)
            /\ attempts[e] = 0
            /\ commits[e] = 1
            /\ paths[e] = {"filter"}

\* one event rejected by the filter and committed while another is being sent
C4_Witness ==
    /\ filterRes[1] = FailFilter
    /\ commits[1] = 1
    /\ filterRes[2] = PassFilter
    /\ attempts[2] > 0

\* C5: an event gets at most MaxRetryTimes attempts and at most one
\* acknowledgment, and the acknowledgment ends the loop: no step adds an attempt
\* to an acknowledged event.  An event committed after rejections only has had
\* exactly MaxRetryTimes attempts and no acknowledgment; an event committed
\* after an acknowledgment has had exactly one, on its last attempt; either way
\* it is committed once.
C5_RetryBound ==
    /\ [](\A e \in Events :
            /\ attempts[e] <= MaxRetryTimes
            /\ acks[e] <= 1
            /\ "exhausted" \in paths[e] =>
                  attempts[e] = MaxRetryTimes /\ acks[e] = 0 /\ commits[e] = 1
            /\ "ack" \in paths[e] =>
                  attempts[e] >= 1 /\ acks[e] = 1 /\ commits[e] = 1)
    /\ [][\A e \in Events :
            /\ acks[e] = 1 => attempts'[e] = attempts[e]
            /\ commits[e] = 1 => attempts'[e] = attempts[e] /\ commits'[e] = 1]_vars

\* one event dropped after MaxRetryTimes rejections, one acknowledged on its
\* second attempt
C5_Witness ==
    /\ paths[1] = {"exhausted"}
    /\ attempts[1] = MaxRetryTimes
    /\ paths[2] = {"ack"}
    /\ attempts[2] = 2

\* C6: an event that took n attempts has had n-1 pauses when its worker commits
\* it: no pause follows the last attempt.
C6_PauseBetweenAttempts ==
    \A e \in Events :
        (commits[e] > 0 /\ attempts[e] > 0) => pauses[e] = attempts[e] - 1

\* C7: once the shared context is cancelled while a send worker is in the retry
\* loop for an event, that event gets no further attempt, no further pause and
\* no commit.
C7_CancelEndsRetry ==
    [][\A w \in SendWorkers :
          (ctxDone /\ spc[w] \in {"attempt", "pause"}) =>
              /\ attempts'[sev[w]] = attempts[sev[w]]
              /\ pauses'[sev[w]] = pauses[sev[w]]
              /\ commits'[sev[w]] = commits[sev[w]]]_vars

\* a step of a goroutine of the worker group
GroupStep ==
    \/ \E w \in FilterWorkers : FilterWorker(w)
    \/ \E w \in SendWorkers : SendWorker(w)
    \/ WatchCtxDone
    \/ WatchLock
    \/ WatchUpdate

\* C8: Stop terminates: while Stop waits for the worker group, either every
\* goroutine of the group has returned or one of them can take a step.
C8_StopTerminates ==
    (stopPc = "wait" /\ ~panicked) => (GroupDone \/ ENABLED GroupStep)

\* C9: a call of Stop that has ended leaves state Stopped, and GetState then
\* reports neither Running nor Sleep; a call that finds the state Stopped
\* changes nothing of the Trigger.
C9_StopIdempotent ==
    /\ [](stopCalls > 0 /\ stopPc = "idle" =>
            state = TriggerStopped /\ GetState \notin {TriggerRunning, TriggerSleep})
    /\ [][StopAlreadyStopped =>
            UNCHANGED <<chans, life, fvars, svars, wpc, panicked>>]_vars

\* an event is in the pipeline or through it
Enqueued(e) ==
    \/ e \in Buffered(eventCh)
    \/ e \in HeldByFilter
    \/ filterRes[e] # "none"

\* C10: an EventArrived that returned the context's error has neither enqueued
\* the event nor registered its receive; one that returned nil has done both.
C10_CancelledNotReceived ==
    \A e \in Events :
        /\ apc[e] = "cancelled" => ~Enqueued(e) /\ received[e] = 0
        /\ apc[e] = "ok" => Enqueued(e) /\ received[e] = 1

\* the intake queue at capacity, one call returned nil and another cancelled
C10_Witness ==
    /\ Len(eventCh) = BufferSize
    /\ \E e \in Events : apc[e] = "ok"
    /\ \E e \in Events : apc[e] = "cancelled"

\* C3 as claimed: once the workers run, every event EventArrived accepted is
\* eventually committed, Stop or no Stop.
C3_AcceptedCommitted ==
    \A e \in Events : (apc[e] = "ok" /\ stop) ~> (commits[e] > 0)

\* C3 as amended: once the workers run, every event EventArrived accepted is
\* eventually committed, unless Stop is called.
C3_AcceptedCommittedUnlessStopped ==
    \A e \in Events : (apc[e] = "ok" /\ stop) ~> (commits[e] > 0 \/ stopCalls > 0)

\* every event accepted and committed, one of them after its retries were
\* exhausted, and Stop never called
C3_Witness ==
    /\ \A e \in Events : apc[e] = "ok" /\ commits[e] = 1
    /\ \E e \in Events : paths[e] = {"exhausted"}
    /\ stop
    /\ stopCalls = 0

\* the goroutines of each kind that are running
LiveFilterWorkers == {w \in FilterWorkers : fpc[w] \notin {"none", "exited"}}
LiveSendWorkers == {w \in SendWorkers : spc[w] \notin {"none", "exited"}}
WatcherLive == wpc \notin {"none", "exited"}

\* C11: a Start that fails to construct the sink client leaves the state as it
\* was (not Running), spawns no worker and no watcher and installs no
\* cancellation scope; when a Start returns success, exactly FilterProcessSize
\* filter workers, SendProcessSize send workers and one watcher are running and
\* the state is Running.
C11_StartOutcome ==
    [][/\ (startCalls' = startCalls + 1 /\ ~targetValid) =>
              /\ UNCHANGED <<state, stop, ctxDone, fpc, spc, wpc>>
              /\ state' # TriggerRunning
              /\ ~stop'
       /\ (startPc # "idle" /\ startPc' = "idle") =>
              /\ Cardinality(LiveFilterWorkers') = FilterProcessSize
              /\ Cardinality(LiveSendWorkers') = SendProcessSize
              /\ WatcherLive'
              /\ state' = TriggerRunning]_vars

\* C12: Stopped is terminal: no step of any operation or goroutine takes the
\* state from Stopped to another state (no code of the Trigger sets Destroyed).
C12_StoppedTerminal ==
    [][state = TriggerStopped => state' = TriggerStopped]_vars

\* C13: every write of t.state happens in a section that holds the write lock
\* of t.stateMutex: a step that changes the state is the locked section of the
\* goroutine that took the lock.
C13_StateWrittenUnderLock ==
    [][state' # state => stateMutex /\ wpc = "locked" /\ wpc' = "select"]_vars

\* C14: a send worker commits an event only once its delivery is settled: when
\* the EventCommit of a passing event is made, the event has had an acknowledged
\* attempt or MaxRetryTimes rejected ones, at least one attempt, and no attempt
\* or pause of the loop is still to come for it.
C14_CommitAfterSettled ==
    [][\A e \in Events :
          (commits'[e] > commits[e] /\ filterRes[e] = PassFilter) =>
              /\ attempts[e] >= 1
              /\ acks[e] = 1 \/ (acks[e] = 0 /\ attempts[e] = MaxRetryTimes)
              /\ \A w \in SendWorkers :
                     sev[w] = e => spc[w] \notin {"attempt", "pause"}]_vars

\* one event committed after every attempt was rejected, the other after its
\* first attempt was acknowledged
C14_Witness ==
    /\ paths[1] = {"exhausted"}
    /\ attempts[1] = MaxRetryTimes
    /\ acks[1] = 0
    /\ paths[2] = {"ack"}
    /\ attempts[2] = 1

\* C15: Stop closes the queues after the workers are gone: no filter worker
\* receives from the intake queue or sends to the send queue, and no send worker
\* receives from the send queue, once Stop has closed it; once a Stop has
\* returned there is no further sink attempt and no further EventCommit.
C15_CloseAfterQuiescence ==
    [][/\ \A w \in FilterWorkers :
            /\ (fpc[w] = "select" /\ fpc'[w] # fpc[w] /\ ~ctxDone) => ~eventChClosed
            /\ (fpc[w] = "forward" /\ fpc'[w] # fpc[w]) => ~sendChClosed
       /\ \A w \in SendWorkers :
            (spc[w] = "select" /\ spc'[w] # spc[w] /\ ~ctxDone) => ~sendChClosed
       /\ stopReturns > 0 => attempts' = attempts /\ commits' = commits]_vars

\* time.Now().Sub(t.lastActive)
Elapsed == now - lastActive

\* a step of the watcher's locked section
WatchStep == wpc = "locked" /\ wpc' = "select"

\* C16: once Start has returned, while the state is Running and Stop has not
\* been called, an idle time above the threshold leads to the watcher setting
\* Sleep; and the watcher leaves every state other than Running as it finds it.
C16_IdleSleeps ==
    /\ (startPc = "idle" /\ state = TriggerRunning /\ Elapsed > SleepDuration)
           ~> (state = TriggerSleep \/ stopCalls > 0)
    /\ [][(WatchStep /\ state # TriggerRunning) => state' = state]_vars

\* the watcher has put a started, never stopped Trigger to sleep
C16_Witness ==
    /\ state = TriggerSleep
    /\ startPc = "idle"
    /\ stopCalls = 0
    /\ lastActive = 0
    /\ now = MaxTime
    /\ wpc = "select"

\* C17: a tick of the watcher that finds the state Sleep and the idle time
\* within the threshold sets the state to Running.
C17_WakesFromSleep ==
    [][(WatchStep /\ state = TriggerSleep /\ Elapsed <= SleepDuration) =>
           state' = TriggerRunning]_vars

\* C18: t.lastActive is written by Start only: every step other than the last
\* of a successful Start leaves it as it is, so the idle time never decreases
\* from one Start to the next, whatever the pipeline does.
C18_LastActiveOnlyByStart ==
    [][~(startPc = "stated" /\ startPc' = "idle") =>
           /\ lastActive' = lastActive
           /\ Elapsed' >= Elapsed]_vars

\* both events went through the pipeline of a Trigger started at time 0, and
\* the idle time has grown to the end of the clock
C18_Witness ==
    /\ startCalls = 1
    /\ startPc = "idle"
    /\ lastActive = 0
    /\ now = MaxTime
    /\ \A e \in Events : commits[e] = 1
    /\ \E e \in Events : acks[e] = 1

\* C19: neither queue ever holds more than BufferSize events; a filter worker
\* at its forward stays there while the send queue is full; an EventArrived
\* call at its select does not get its event in while the intake queue is full.
C19_BoundedBackpressure ==
    /\ [](Len(eventCh) <= BufferSize /\ Len(sendCh) <= BufferSize)
    /\ [][\A w \in FilterWorkers :
             (fpc[w] = "forward" /\ Len(sendCh) = BufferSize) =>
                 fpc'[w] = "forward" /\ fev'[w] = fev[w]]_vars
    /\ [][\A e \in Events :
             (apc[e] = "select" /\ Len(eventCh) = BufferSize) =>
                 apc'[e] \in {"select", "cancelled"}]_vars

\* the send queue is full and a filter worker waits at its forward with the
\* next passing event
C19_Witness ==
    /\ Len(sendCh) = BufferSize
    /\ \E w \in FilterWorkers :
          fpc[w] = "forward" /\ fev[w] # NoEvent /\ fev[w] \notin Buffered(sendCh)
    /\ ~sendChClosed

\* EventArrived got the event into the intake queue
Accepted(e) == apc[e] \in {"enqueued", "ok"}

\* the number of times e occurs in a channel's buffer
InQueue(ch, e) == Cardinality({i \in 1..Len(ch) : ch[i] = e})

\* the number of places e is in: the queues, the workers' hands, finished
Places(e) ==
    InQueue(eventCh, e) + Cardinality({w \in FilterWorkers : fev[w] = e})
      + InQueue(sendCh, e) + Cardinality({w \in SendWorkers : sev[w] = e})
      + (IF commits[e] > 0 THEN 1 ELSE 0)

\* C20: every accepted event is in exactly one place: the intake queue, one
\* filter worker, the send queue, one send worker, or finished; an event not
\* accepted is nowhere.
C20_Conservation ==
    \A e \in Events : Places(e) = (IF Accepted(e) THEN 1 ELSE 0)

\* the two send workers hold the two events at once, both in their retry loops
C20_Witness ==
    /\ sev[1] # NoEvent
    /\ sev[2] # NoEvent
    /\ sev[1] # sev[2]
    /\ \A w \in SendWorkers : spc[w] \in {"attempt", "pause"}
====
